---- MODULE Spec2Model ----
(***************************************************************************)
(* The schema-constrained generation loop that guardrails.ipynb exercises: *)
(* guard(llm_api, prompt_params, num_reasks) composes a prompt, calls the  *)
(* language model, parses the returned text against the schema, validates  *)
(* every field, applies the on-fail action of each failing validator, and  *)
(* re-asks the model until the output matches or num_reasks is used up.    *)
(***************************************************************************)
EXTENDS Integers, Sequences, FiniteSets, TLC

\* Largest num_reasks an orchestration is started with.
MaxReasks == 2

----------------------------------------------------------------------------
\* Raw leaf texts and their coercion to the declared type (integer).

\* Optional values: Absent, or Some(v) holding v.
Absent == <<>>
Some(v) == <<v>>
Get(o) == o[1]

\* ValidRange built without a max.
NoMax == Absent

\* No error was raised.
NoError == "none"

\* query = """1+1=?"""
query == "1+1=?"

Digits == {"0", "1", "2", "3", "4", "5", "6", "7", "8", "9"}

DigitVal(c) ==
    CASE c = "0" -> 0 [] c = "1" -> 1 [] c = "2" -> 2 [] c = "3" -> 3
      [] c = "4" -> 4 [] c = "5" -> 5 [] c = "6" -> 6 [] c = "7" -> 7
      [] c = "8" -> 8 [] c = "9" -> 9

\* The leaf texts the mocked model returns for a field:
\* "the answer is 2", "-2", "2", "14".
LeafSentence ==
    <<"t", "h", "e", " ", "a", "n", "s", "w", "e", "r", " ", "i", "s", " ", "2">>
LeafMinus2 == <<"-", "2">>
Leaf2 == <<"2">>
Leaf14 == <<"1", "4">>
Leaves == {LeafSentence, LeafMinus2, Leaf2, Leaf14}

\* The leaf texts the model is taken to return for the field named n.
LeavesOf(n) == IF n = "value" THEN Leaves ELSE {LeafMinus2, Leaf2}

\* The text is a decimal integer literal: an optional sign, then digits only.
IsIntText(s) ==
    /\ Len(s) > 0
    /\ IF s[1] = "-"
       THEN Len(s) > 1 /\ \A i \in 2..Len(s) : s[i] \in Digits
       ELSE \A i \in 1..Len(s) : s[i] \in Digits

RECURSIVE DigitsVal(_)
DigitsVal(s) ==
    IF Len(s) = 0 THEN 0
    ELSE 10 * DigitsVal(SubSeq(s, 1, Len(s) - 1)) + DigitVal(s[Len(s)])

\* Coercion of a leaf text to the integer type tag; Absent when it cannot be
\* coerced.
CoerceInt(s) ==
    IF ~IsIntText(s) THEN Absent
    ELSE IF s[1] = "-" THEN Some(0 - DigitsVal(Tail(s)))
    ELSE Some(DigitsVal(s))

----------------------------------------------------------------------------
\* Schemas: pydantic classes with guardrails validators.

\* reask, fix, filter, refrain, noop, exception, fix_reask
OnFailActions ==
    {"reask", "fix", "filter", "refrain", "noop", "exception", "fix_reask"}

\* ValidRange(min=lo, max=hi, on_fail=act)
ValidRange(lo, hi, act) == [min |-> lo, max |-> hi, on_fail |-> act]

IntField(n, vs) == [name |-> n, type |-> "integer", validators |-> vs]

\* class IntegerAnswer(BaseModel): value: int, no validators
IntegerAnswer == <<IntField("value", <<>>)>>

\* class Answer(BaseModel): value: int with one ValidRange validator
Answer(hi, act) == <<IntField("value", <<ValidRange(0, hi, act)>>)>>

\* An Answer with a second validated integer field.
Answer2(hi, act, act2) ==
    Answer(hi, act) \o <<IntField("other", <<ValidRange(0, Some(10), act2)>>)>>

\* An Answer whose field carries two ValidRange validators that no value
\* satisfies together: the fix of one leaves the other failing.
AnswerTwoRanges(act) ==
    <<IntField("value", <<ValidRange(0, Some(10), act), ValidRange(12, NoMax, act)>>)>>

Schemas ==
    {IntegerAnswer}
      \cup {Answer(hi, act) : hi \in {Some(10), NoMax}, act \in OnFailActions}
      \cup {AnswerTwoRanges(act) : act \in OnFailActions}
      \cup {Answer2(Some(10), act, act2) : act \in OnFailActions, act2 \in OnFailActions}

FieldNames(S) == {S[i].name : i \in 1..Len(S)}

FieldOf(S, n) == S[CHOOSE i \in 1..Len(S) : S[i].name = n]

----------------------------------------------------------------------------
\* Validators and on-fail actions.

\* ValidRange: the value lies in [min, max]; an absent value does not.
Passes(v, val) ==
    /\ val # Absent
    /\ Get(val) >= v.min
    /\ v.max # NoMax => Get(val) <= Get(v.max)

\* Mutant: a value below min is left as it is.
FixValueNoLower(v, val) ==
    IF val = Absent THEN Absent
    ELSE IF v.max # NoMax /\ Get(val) > Get(v.max) THEN v.max
    ELSE val

\* Mutant: the bounds are swapped.
FixValueSwapped(v, val) ==
    IF val = Absent THEN Absent
    ELSE IF Get(val) < v.min /\ v.max # NoMax THEN v.max
    ELSE IF v.max # NoMax /\ Get(val) > Get(v.max) THEN Some(v.min)
    ELSE val

\* The programmatic fix of ValidRange: the bound that is closer.
FixValue(v, val) ==
    IF val = Absent THEN Absent
    ELSE IF Get(val) < v.min THEN Some(v.min)
    ELSE IF v.max # NoMax /\ Get(val) > Get(v.max) THEN v.max
    ELSE val

\* Mutant: the validators that pass are reported as the failing ones.
FailingNegated(f, val) == {i \in 1..Len(f.validators) : Passes(f.validators[i], val)}

\* Mutant: evaluation stops at the first validator that fails.
FailingFirstOnly(f, val) ==
    LET all == {i \in 1..Len(f.validators) : ~Passes(f.validators[i], val)}
    IN  {i \in all : \A j \in all : i <= j}

\* The validators of field f (by index) that fail on val.
Failing(f, val) == {i \in 1..Len(f.validators) : ~Passes(f.validators[i], val)}

\* By default the corrective action is to re-prompt the model: a field with
\* no validator whose value could not be coerced is re-asked.
DefaultAction == "reask"

\* The on-fail actions a field's failures call for.
FailActions(f, val, failed) ==
    {f.validators[i].on_fail : i \in failed}
      \cup (IF val = Absent /\ Len(f.validators) = 0 THEN {DefaultAction} ELSE {})

\* The value after the fixes of the failing fix and fix_reask validators,
\* applied in declaration order from validator i on.
RECURSIVE ApplyFixes(_, _, _, _)
ApplyFixes(f, val, failed, i) ==
    IF i > Len(f.validators) THEN val
    ELSE IF i \in failed /\ f.validators[i].on_fail \in {"fix", "fix_reask"}
    THEN ApplyFixes(f, FixValue(f.validators[i], val), failed, i + 1)
    ELSE ApplyFixes(f, val, failed, i + 1)

\* Mutant: a fix that leaves the value failing is followed by a re-ask.
StillFailingFixReasks == "reask"

\* A fix validator that still fails on the fixed value is treated as noop.
StillFailingFix == "noop"

\* What a failure that is left after the fix was applied calls for: fix does
\* nothing more, fix_reask performs reasking.
AfterFix(act) ==
    CASE act = "fix" -> StillFailingFix
      [] act = "fix_reask" -> "reask"
      [] OTHER -> act

\* Mutant: validation is not rerun on the fixed value.
DecideFieldNoRerun(f, val, failed) ==
    LET acts == FailActions(f, val, failed)
        fixed == ApplyFixes(f, val, failed, 1)
    IN  [value |-> fixed,
         failed |-> acts # {},
         raise |-> "exception" \in acts,
         acts |-> {AfterFix(a) : a \in acts}]

\* The decision for one field: its value after the fixes, and the actions its
\* remaining failures (validation rerun on the fixed value) call for.
DecideField(f, val, failed) ==
    LET acts == FailActions(f, val, failed)
        fixed == ApplyFixes(f, val, failed, 1)
        again == IF fixed = val THEN failed ELSE Failing(f, fixed)
    IN  [value |-> fixed,
         failed |-> acts # {},
         raise |-> "exception" \in acts,
         acts |-> {AfterFix(a) : a \in FailActions(f, fixed, again)}]

----------------------------------------------------------------------------
\* The guard's __call__.

VARIABLES
    schema,      \* the output class the Guard was built from
    num_reasks,  \* how many attempts to re-ask the model
    state,       \* where the call is
    attempt,     \* re-asks made so far
    calls,       \* calls of llm_api so far (the mock's call count)
    prompt,      \* the prompt of the current attempt
    raw,         \* raw_llm_output: the text of the last response
    candidate,   \* the parsed output of the current attempt
    failures,    \* per field, the validators that failed on the candidate
    result,      \* validated_output
    error,       \* the exception raised to the caller
    unresolved,  \* fields still failing when the re-asks ran out
    recorded,    \* fields whose failure is recorded in the logs
    history,     \* the attempts decided so far
    orchs        \* the calls several callers have under way, per caller

vars ==
    <<schema, num_reasks, state, attempt, calls, prompt, raw, candidate,
      failures, result, error, unresolved, recorded, history, orchs>>

Names == FieldNames(schema)

NoPrompt == [kind |-> "none", query |-> Absent, failed |-> {}]
NoResult == [kind |-> "none", fields |-> <<>>]

\* A response whose text is a JSON object with one leaf text per field.
JsonText(S) ==
    {[decodes |-> TRUE, body |-> b] :
        b \in {c \in [FieldNames(S) -> Leaves] :
                  \A n \in FieldNames(S) : c[n] \in LeavesOf(n)}}

\* A response whose text is not a JSON object.
Undecodable == [decodes |-> FALSE, body |-> <<>>]

Init ==
    /\ schema \in Schemas
    /\ num_reasks \in 0..MaxReasks
    /\ state = "Composing"
    /\ attempt = 0
    /\ calls = 0
    /\ prompt = NoPrompt
    /\ raw = Absent
    /\ candidate = [n \in Names |-> Absent]
    /\ failures = [n \in Names |-> {}]
    /\ result = NoResult
    /\ error = NoError
    /\ unresolved = {}
    /\ recorded = {}
    /\ history = <<>>
    /\ orchs = <<>>

\* The fields the previous attempt marked for re-asking.
PriorFailures == IF history = <<>> THEN {} ELSE history[Len(history)].reask

\* Update the prompt: the first prompt has ${query} replaced by the query; the
\* prompt used for reasking tells which fields failed, and does not contain
\* the initial query.
ComposePrompt(n, prior) ==
    IF n = 0 THEN [kind |-> "prompt", query |-> Some(query), failed |-> {}]
    ELSE [kind |-> "reask", query |-> Absent, failed |-> prior]

Compose ==
    /\ state = "Composing"
    /\ prompt' = ComposePrompt(attempt, PriorFailures)
    /\ state' = "Requesting"
    /\ UNCHANGED <<orchs, schema, num_reasks, attempt, calls, raw, candidate, failures,
                   result, error, unresolved, recorded, history>>

\* Call the language model API; the call returns a text.
Request ==
    /\ state = "Requesting"
    /\ \E r \in JsonText(schema) \cup {Undecodable} : raw' = Some(r)
    /\ calls' = calls + 1
    /\ state' = "Parsing"
    /\ UNCHANGED <<orchs, schema, num_reasks, attempt, prompt, candidate, failures,
                   result, error, unresolved, recorded, history>>

\* Mutant: a failed call is retried as a re-ask while attempts remain.
RequestFailsRetried ==
    /\ state = "Requesting"
    /\ calls' = calls + 1
    /\ IF attempt < num_reasks
       THEN attempt' = attempt + 1 /\ state' = "Composing" /\ error' = error
       ELSE attempt' = attempt /\ state' = "Failed" /\ error' = "TransportError"
    /\ UNCHANGED <<orchs, schema, num_reasks, prompt, raw, candidate, failures,
                   result, unresolved, recorded, history>>

\* The call of the language model API fails.
RequestFails ==
    /\ state = "Requesting"
    /\ calls' = calls + 1
    /\ error' = "TransportError"
    /\ state' = "Failed"
    /\ UNCHANGED <<orchs, schema, num_reasks, attempt, prompt, raw, candidate, failures,
                   result, unresolved, recorded, history>>

\* Mutant: one leaf that cannot be coerced leaves every field absent.
ParseOutputAllOrNothing(S, r) ==
    IF \E n \in FieldNames(S) : CoerceInt(r.body[n]) = Absent
    THEN [n \in FieldNames(S) |-> Absent]
    ELSE [n \in FieldNames(S) |-> CoerceInt(r.body[n])]

\* Structural decoding succeeded: coerce each field's leaf to its type. A leaf
\* that cannot be coerced leaves the field absent; no error is raised.
ParseOutput(S, r) == [n \in FieldNames(S) |-> CoerceInt(r.body[n])]

\* Parse the returned output using the schema.
Parse ==
    /\ state = "Parsing"
    /\ Get(raw).decodes
    /\ candidate' = ParseOutput(schema, Get(raw))
    /\ state' = "Validating"
    /\ UNCHANGED <<orchs, schema, num_reasks, attempt, calls, prompt, raw, failures,
                   result, error, unresolved, recorded, history>>

\* Every validator of every field counts as failed.
AllFailed(S) == [n \in FieldNames(S) |-> 1..Len(FieldOf(S, n).validators)]

\* Mutant: a text that cannot be decoded ends the call with a ParseError.
ParseFailsFatal ==
    /\ state = "Parsing"
    /\ ~Get(raw).decodes
    /\ error' = "ParseError"
    /\ state' = "Failed"
    /\ UNCHANGED <<orchs, schema, num_reasks, attempt, calls, prompt, raw, candidate,
                   failures, result, unresolved, recorded, history>>

\* The text is not structurally decodable: no field is decoded, all fields are
\* considered failed, and the call goes on to the corrective actions.
ParseFails ==
    /\ state = "Parsing"
    /\ ~Get(raw).decodes
    /\ candidate' = [n \in Names |-> Absent]
    /\ failures' = AllFailed(schema)
    /\ state' = "Deciding"
    /\ UNCHANGED <<orchs, schema, num_reasks, attempt, calls, prompt, raw, result,
                   error, unresolved, recorded, history>>

\* Run every validator of every field on the parsed output.
RunValidators(S, cand) == [n \in FieldNames(S) |-> Failing(FieldOf(S, n), cand[n])]

Validate ==
    /\ state = "Validating"
    /\ failures' = RunValidators(schema, candidate)
    /\ state' = "Deciding"
    /\ UNCHANGED <<orchs, schema, num_reasks, attempt, calls, prompt, raw, candidate,
                   result, error, unresolved, recorded, history>>

\* The per-field decisions of a round.
Decisions(S, cand, fails) ==
    [n \in FieldNames(S) |-> DecideField(FieldOf(S, n), cand[n], fails[n])]

\* Mutant: the exception is raised only when every field calls for it.
RaisesWhenAll(outs) == \A n \in DOMAIN outs : outs[n].raise

\* An exception validator failed.
Raises(outs) == \E n \in DOMAIN outs : outs[n].raise

\* Mutant: a field marked for re-asking in the previous round stays marked.
ReaskFieldsSticky(outs) ==
    {n \in DOMAIN outs : "reask" \in outs[n].acts} \cup PriorFailures

\* The fields to re-ask the model about.
ReaskFields(outs) == {n \in DOMAIN outs : "reask" \in outs[n].acts}

\* Mutant: one re-ask more than num_reasks.
MayReaskOffByOne(n, max) == n <= max

\* The re-ask is made while attempts remain.
MayReask(n, max) == n < max

\* Mutant: a field that failed a filter validator stays in the output.
KeptAll(outs) == {n \in DOMAIN outs : outs[n].value # Absent}

\* Mutant: a field that is still to be re-asked is dropped from the output.
KeptResolved(outs) ==
    {n \in DOMAIN outs :
        /\ outs[n].acts \cap {"filter", "reask"} = {}
        /\ outs[n].value # Absent}

\* Mutant: only the fields that passed stay in the output.
KeptOnlyPassing(outs) ==
    {n \in DOMAIN outs : outs[n].acts = {} /\ outs[n].value # Absent}

\* The fields that stay in the output: filter drops the field that failed, and
\* a field without a value is not in the output.
Kept(outs) ==
    {n \in DOMAIN outs : "filter" \notin outs[n].acts /\ outs[n].value # Absent}

\* A refrain validator failed: no output is returned instead of the JSON.
Refrains(outs) == \E n \in DOMAIN outs : "refrain" \in outs[n].acts

\* Mutant: refrain drops only the field that failed, as filter does.
AssembleRefrainAsFilter(outs) ==
    [kind |-> "mapping",
     fields |-> [n \in {m \in Kept(outs) : "refrain" \notin outs[m].acts} |->
                   Get(outs[n].value)]]

\* The validated output that is returned.
Assemble(outs) ==
    IF Refrains(outs) THEN [kind |-> "refrained", fields |-> <<>>]
    ELSE [kind |-> "mapping",
          fields |-> [n \in Kept(outs) |-> Get(outs[n].value)]]

\* Mutant: a failure that calls for nothing but noop is not recorded.
RecordedExceptNoop(outs) ==
    {n \in DOMAIN outs : outs[n].failed /\ outs[n].acts # {"noop"}}

\* The fields whose failure is recorded in the logs.
Recorded(outs) == {n \in DOMAIN outs : outs[n].failed}

\* The fields noted as unresolved when the result is returned.
Unresolved(outs) == ReaskFields(outs)

\* The record of the round that was just decided.
AttemptRecord(outs) ==
    [prompt |-> prompt, raw |-> Get(raw), candidate |-> candidate,
     failed |-> Recorded(outs), reask |-> ReaskFields(outs),
     raise |-> Raises(outs)]

Outs == Decisions(schema, candidate, failures)

\* An exception validator failed: raise ValidationError.
DecideRaise ==
    /\ state = "Deciding"
    /\ Raises(Outs)
    /\ error' = "ValidationError"
    /\ state' = "Failed"
    /\ recorded' = recorded \cup Recorded(Outs)
    /\ history' = Append(history, AttemptRecord(Outs))
    /\ UNCHANGED <<orchs, schema, num_reasks, attempt, calls, prompt, raw, candidate,
                   failures, result, unresolved>>

\* Mutant: every field to re-ask takes an attempt of its own.
DecideReaskPerField ==
    /\ state = "Deciding"
    /\ ~Raises(Outs)
    /\ ReaskFields(Outs) # {}
    /\ MayReask(attempt, num_reasks)
    /\ attempt' = attempt + Cardinality(ReaskFields(Outs))
    /\ state' = "Composing"
    /\ recorded' = recorded \cup Recorded(Outs)
    /\ history' = Append(history, AttemptRecord(Outs))
    /\ UNCHANGED <<orchs, schema, num_reasks, calls, prompt, raw, candidate, failures,
                   result, error, unresolved>>

\* Mutant: the re-ask calls the model again without updating the prompt.
DecideReaskNoCompose ==
    /\ state = "Deciding"
    /\ ~Raises(Outs)
    /\ ReaskFields(Outs) # {}
    /\ MayReask(attempt, num_reasks)
    /\ attempt' = attempt + 1
    /\ state' = "Requesting"
    /\ recorded' = recorded \cup Recorded(Outs)
    /\ history' = Append(history, AttemptRecord(Outs))
    /\ UNCHANGED <<orchs, schema, num_reasks, calls, prompt, raw, candidate, failures,
                   result, error, unresolved>>

\* Mutant: the re-ask is made also when an exception validator failed.
DecideReaskBeforeRaise ==
    /\ state = "Deciding"
    /\ ReaskFields(Outs) # {}
    /\ MayReask(attempt, num_reasks)
    /\ attempt' = attempt + 1
    /\ state' = "Composing"
    /\ recorded' = recorded \cup Recorded(Outs)
    /\ history' = Append(history, AttemptRecord(Outs))
    /\ UNCHANGED <<orchs, schema, num_reasks, calls, prompt, raw, candidate,
                   failures, result, error, unresolved>>

\* The output does not match the schema and attempts remain: re-prompt the
\* model asking it to resolve the issue.
DecideReask ==
    /\ state = "Deciding"
    /\ ~Raises(Outs)
    /\ ReaskFields(Outs) # {}
    /\ MayReask(attempt, num_reasks)
    /\ attempt' = attempt + 1
    /\ state' = "Composing"
    /\ recorded' = recorded \cup Recorded(Outs)
    /\ history' = Append(history, AttemptRecord(Outs))
    /\ UNCHANGED <<orchs, schema, num_reasks, calls, prompt, raw, candidate, failures,
                   result, error, unresolved>>

\* Mutant: the result is returned only when no field is left to re-ask.
DecideDoneOnlyWhenResolved ==
    /\ state = "Deciding"
    /\ ~Raises(Outs)
    /\ ReaskFields(Outs) = {}
    /\ result' = Assemble(Outs)
    /\ unresolved' = Unresolved(Outs)
    /\ state' = "Done"
    /\ recorded' = recorded \cup Recorded(Outs)
    /\ history' = Append(history, AttemptRecord(Outs))
    /\ UNCHANGED <<orchs, schema, num_reasks, attempt, calls, prompt, raw, candidate,
                   failures, error>>

\* The output matches the schema, or the maximum number of attempts is
\* reached: the result is returned.
DecideDone ==
    /\ state = "Deciding"
    /\ ~Raises(Outs)
    /\ ReaskFields(Outs) = {} \/ ~MayReask(attempt, num_reasks)
    /\ result' = Assemble(Outs)
    /\ unresolved' = Unresolved(Outs)
    /\ state' = "Done"
    /\ recorded' = recorded \cup Recorded(Outs)
    /\ history' = Append(history, AttemptRecord(Outs))
    /\ UNCHANGED <<orchs, schema, num_reasks, attempt, calls, prompt, raw, candidate,
                   failures, error>>

Next ==
    \/ Compose
    \/ Request
    \/ RequestFails
    \/ Parse
    \/ ParseFails
    \/ Validate
    \/ DecideRaise
    \/ DecideReask
    \/ DecideDone

Spec == Init /\ [][Next]_vars

\* The call is one sequential piece of code: a step that can be taken is
\* taken, and a call of the language model API returns or fails.
FairSpec == Init /\ [][Next]_vars /\ WF_vars(Next)

----------------------------------------------------------------------------
\* Several callers calling guards built from the same output class, their
\* steps interleaved. Each caller's call is the record of its own state; the
\* steps are those of the guard's __call__ above.

Callers == {"a", "b"}

\* The state of a call before its first step.
InitOrch(S) ==
    [state |-> "Composing", attempt |-> 0, calls |-> 0, prompt |-> NoPrompt,
     raw |-> Absent, candidate |-> [n \in FieldNames(S) |-> Absent],
     failures |-> [n \in FieldNames(S) |-> {}], result |-> NoResult,
     error |-> NoError, unresolved |-> {}, recorded |-> {}, history |-> <<>>,
     prompts |-> <<>>, inputs |-> <<>>]

\* What the language model API does on a call: it returns a text, or fails.
Returned(r) == [fails |-> FALSE, text |-> Some(r)]
CallFailed == [fails |-> TRUE, text |-> Absent]

\* The texts the model is taken to return to the callers.
CallerTexts(S) ==
    {r \in JsonText(S) : \A n \in FieldNames(S) : r.body[n] \in {LeafMinus2, Leaf2}}

\* Mutant: the record of the attempts is kept on what the callers share, so
\* the re-ask prompt is built from the attempt decided last by any caller.
PriorOfShared(os, i) ==
    LET k == CHOOSE c \in DOMAIN os :
                 \A d \in DOMAIN os : Len(os[c].history) >= Len(os[d].history)
    IN  IF os[k].history = <<>> THEN {}
        ELSE os[k].history[Len(os[k].history)].reask

\* The fields the previous attempt of caller i's call marked for re-asking.
PriorOf(os, i) ==
    IF os[i].history = <<>> THEN {}
    ELSE os[i].history[Len(os[i].history)].reask

\* Update the prompt.
ComposeStep(os, i) ==
    LET p == ComposePrompt(os[i].attempt, PriorOf(os, i))
    IN  [os[i] EXCEPT !.prompt = p, !.prompts = Append(@, p),
                      !.state = "Requesting"]

\* Call the language model API.
RequestStep(o, in) ==
    IF in.fails
    THEN [o EXCEPT !.calls = @ + 1, !.error = "TransportError",
                   !.state = "Failed", !.inputs = Append(@, in)]
    ELSE [o EXCEPT !.calls = @ + 1, !.raw = in.text, !.state = "Parsing",
                   !.inputs = Append(@, in)]

\* Parse the returned output using the schema.
ParseStep(o, S) ==
    IF Get(o.raw).decodes
    THEN [o EXCEPT !.candidate = ParseOutput(S, Get(o.raw)),
                   !.state = "Validating"]
    ELSE [o EXCEPT !.candidate = [n \in FieldNames(S) |-> Absent],
                   !.failures = AllFailed(S), !.state = "Deciding"]

\* Run the validators on the parsed output.
ValidateStep(o, S) ==
    [o EXCEPT !.failures = RunValidators(S, o.candidate), !.state = "Deciding"]


\* Perform the corrective actions: raise, re-prompt, or return the result.
DecideStep(o, S, max) ==
    LET outs == Decisions(S, o.candidate, o.failures)
        rec == [prompt |-> o.prompt, raw |-> Get(o.raw),
                candidate |-> o.candidate, failed |-> Recorded(outs),
                reask |-> ReaskFields(outs), raise |-> Raises(outs)]
        d == [o EXCEPT !.recorded = @ \cup Recorded(outs),
                       !.history = Append(@, rec)]
    IN  IF Raises(outs)
        THEN [d EXCEPT !.error = "ValidationError", !.state = "Failed"]
        ELSE IF ReaskFields(outs) # {} /\ MayReask(o.attempt, max)
        THEN [d EXCEPT !.attempt = @ + 1, !.state = "Composing"]
        ELSE [d EXCEPT !.result = Assemble(outs),
                       !.unresolved = Unresolved(outs), !.state = "Done"]

\* A step of caller i's call leaves the single call of the first part alone.
OneCallIdle ==
    UNCHANGED <<schema, num_reasks, state, attempt, calls, prompt, raw,
                candidate, failures, result, error, unresolved, recorded,
                history>>

OrchCompose(i) ==
    /\ orchs[i].state = "Composing"
    /\ orchs' = [orchs EXCEPT ![i] = ComposeStep(orchs, i)]
    /\ OneCallIdle

OrchRequest(i) ==
    /\ orchs[i].state = "Requesting"
    /\ \E r \in CallerTexts(schema) :
          orchs' = [orchs EXCEPT ![i] = RequestStep(orchs[i], Returned(r))]
    /\ OneCallIdle

OrchRequestFails(i) ==
    /\ orchs[i].state = "Requesting"
    /\ orchs' = [orchs EXCEPT ![i] = RequestStep(orchs[i], CallFailed)]
    /\ OneCallIdle

OrchParse(i) ==
    /\ orchs[i].state = "Parsing"
    /\ orchs' = [orchs EXCEPT ![i] = ParseStep(orchs[i], schema)]
    /\ OneCallIdle

OrchValidate(i) ==
    /\ orchs[i].state = "Validating"
    /\ orchs' = [orchs EXCEPT ![i] = ValidateStep(orchs[i], schema)]
    /\ OneCallIdle

OrchDecide(i) ==
    /\ orchs[i].state = "Deciding"
    /\ orchs' = [orchs EXCEPT ![i] = DecideStep(orchs[i], schema, num_reasks)]
    /\ OneCallIdle

\* The output classes the callers' guards are built from.
CallerSchemas ==
    {Answer(Some(10), act) : act \in OnFailActions}
      \cup {Answer2(Some(10), "reask", "filter")}

ConcInit ==
    /\ schema \in CallerSchemas
    /\ num_reasks \in 0..MaxReasks
    /\ state = "Composing"
    /\ attempt = 0
    /\ calls = 0
    /\ prompt = NoPrompt
    /\ raw = Absent
    /\ candidate = [n \in Names |-> Absent]
    /\ failures = [n \in Names |-> {}]
    /\ result = NoResult
    /\ error = NoError
    /\ unresolved = {}
    /\ recorded = {}
    /\ history = <<>>
    /\ orchs = [i \in Callers |-> InitOrch(schema)]

ConcNext ==
    \E i \in Callers :
        \/ OrchCompose(i)
        \/ OrchRequest(i)
        \/ OrchRequestFails(i)
        \/ OrchParse(i)
        \/ OrchValidate(i)
        \/ OrchDecide(i)

ConcSpec == ConcInit /\ [][ConcNext]_vars

----------------------------------------------------------------------------
\* Guards built from output classes whose field carries two validators.

\* An Answer whose field carries two ValidRange validators with an on-fail
\* action each: min=0, max=10 and a second range with min=lo and no max.
TwoRanges(lo, act, act2) ==
    <<IntField("value", <<ValidRange(0, Some(10), act), ValidRange(lo, NoMax, act2)>>)>>

\* The second range overlaps the first (min=5) or excludes it (min=12).
TwoRangesSchemas ==
    {TwoRanges(lo, act, act2) :
        lo \in {5, 12}, act \in OnFailActions, act2 \in OnFailActions}

TwoRangesInit ==
    /\ schema \in TwoRangesSchemas
    /\ num_reasks \in 0..MaxReasks
    /\ state = "Composing"
    /\ attempt = 0
    /\ calls = 0
    /\ prompt = NoPrompt
    /\ raw = Absent
    /\ candidate = [n \in Names |-> Absent]
    /\ failures = [n \in Names |-> {}]
    /\ result = NoResult
    /\ error = NoError
    /\ unresolved = {}
    /\ recorded = {}
    /\ history = <<>>
    /\ orchs = <<>>

TwoRangesSpec == TwoRangesInit /\ [][Next]_vars

----------------------------------------------------------------------------
\* Vocabulary of the properties, stated on the schema and on the recorded
\* attempts rather than on the guard's own decisions.

Terminal == state \in {"Done", "Failed"}

Rounds == 1..Len(history)

\* The validators of field n.
ValidatorsOf(n) == FieldOf(schema, n).validators

\* val is a decoded integer inside the range of validator v.
InRange(v, val) ==
    /\ val # Absent
    /\ v.min <= Get(val)
    /\ \/ v.max = NoMax
       \/ Get(val) <= Get(v.max)

\* val is decoded and inside the range of every validator of field n.
Valid(n, val) ==
    /\ val # Absent
    /\ \A i \in 1..Len(ValidatorsOf(n)) : InRange(ValidatorsOf(n)[i], val)

\* Field n carries exactly one validator, whose on-fail action is act.
HasPolicy(n, act) ==
    /\ Len(ValidatorsOf(n)) = 1
    /\ ValidatorsOf(n)[1].on_fail = act

\* In round k, field n failed with a validator whose on-fail action is act.
FailedWith(k, n, act) ==
    \E i \in 1..Len(ValidatorsOf(n)) :
        /\ ValidatorsOf(n)[i].on_fail = act
        /\ ~InRange(ValidatorsOf(n)[i], history[k].candidate[n])

\* Every field of round k was decoded and passed every validator.
AllValid(k) == \A n \in Names : Valid(n, history[k].candidate[n])

\* The candidate of round k as a result mapping.
CandidateMapping(k) ==
    [kind |-> "mapping",
     fields |-> [n \in Names |-> Get(history[k].candidate[n])]]

\* The number of re-ask prompts sent so far.
ReaskPrompts == Cardinality({k \in Rounds : history[k].prompt.kind = "reask"})

----------------------------------------------------------------------------
\* C1: when the first raw output decodes structurally and every field passes
\* every validator, the call ends in Done with the parsed candidate unchanged
\* as the result, after exactly one model call and no re-ask, for every
\* num_reasks (0 included).
C1_FirstValidOutputReturned ==
    (Len(history) >= 1 /\ history[1].raw.decodes /\ AllValid(1)) =>
        /\ state = "Done"
        /\ result = CandidateMapping(1)
        /\ calls = 1
        /\ attempt = 0
        /\ ReaskPrompts = 0
        /\ error = NoError

C1_Witness ==
    /\ state = "Done"
    /\ num_reasks = 0
    /\ Len(schema) = 2
    /\ history[1].raw.decodes
    /\ AllValid(1)
    /\ result.fields["value"] = 2

\* C2: with num_reasks = N and a reask field that is invalid in every
\* response, the call makes exactly N re-asks and N + 1 model calls, then
\* returns a result with that field noted as unresolved.
C2_AlwaysInvalidReask ==
    \A n \in Names :
        (/\ Terminal
         /\ error = NoError
         /\ HasPolicy(n, "reask")
         /\ \A k \in Rounds : ~Valid(n, history[k].candidate[n])
         /\ \A k \in Rounds : \A m \in Names : ~FailedWith(k, m, "exception")) =>
            /\ state = "Done"
            /\ calls = num_reasks + 1
            /\ Len(history) = num_reasks + 1
            /\ attempt = num_reasks
            /\ ReaskPrompts = num_reasks
            /\ result.kind # "none"
            /\ n \in unresolved

C2_Witness ==
    /\ state = "Done"
    /\ num_reasks = MaxReasks
    /\ calls = MaxReasks + 1
    /\ HasPolicy("value", "reask")
    /\ \A k \in Rounds : history[k].raw.decodes
    /\ \A k \in Rounds : ~Valid("value", history[k].candidate["value"])
    /\ "value" \in unresolved

\* C3: when a reask field is invalid in the first k responses (k <= num_reasks)
\* and response k + 1 is valid, the call ends in Done right after call k + 1
\* with that valid candidate as the result and exactly k + 1 model calls; with
\* ValidRange(0, 10), num_reasks = 1 and the responses -2 then 2, the result
\* is {value: 2} after exactly 2 model calls.
C3_ReaskResolves ==
    /\ \A j \in Rounds :
          (/\ AllValid(j)
           /\ \A k \in 1..(j - 1) : \E n \in Names :
                 HasPolicy(n, "reask") /\ ~Valid(n, history[k].candidate[n])) =>
              /\ state = "Done"
              /\ Len(history) = j
              /\ calls = j
              /\ attempt = j - 1
              /\ j - 1 <= num_reasks
              /\ result = CandidateMapping(j)
              /\ unresolved = {}
    /\ (/\ schema = Answer(Some(10), "reask")
        /\ num_reasks = 1
        /\ Len(history) = 2
        /\ history[1].raw = [decodes |-> TRUE, body |-> [n \in {"value"} |-> LeafMinus2]]
        /\ history[2].raw = [decodes |-> TRUE, body |-> [n \in {"value"} |-> Leaf2]]) =>
            /\ state = "Done"
            /\ result = [kind |-> "mapping", fields |-> [n \in {"value"} |-> 2]]
            /\ calls = 2

C3_Witness ==
    /\ schema = Answer(Some(10), "reask")
    /\ num_reasks = 1
    /\ Len(history) = 2
    /\ history[1].raw = [decodes |-> TRUE, body |-> [n \in {"value"} |-> LeafMinus2]]
    /\ history[2].raw = [decodes |-> TRUE, body |-> [n \in {"value"} |-> Leaf2]]
    /\ state = "Done"
    /\ calls = 2

\* C4: when a field with an exception validator fails validation, the call
\* raises ValidationError in that round and makes no further model call: a
\* failure on the first response ends the call in Failed after exactly 1 model
\* call, also when num_reasks >= 1.
C4_ExceptionRaisedAtOnce ==
    \A k \in Rounds :
        (\E n \in Names : FailedWith(k, n, "exception")) =>
            /\ state = "Failed"
            /\ error = "ValidationError"
            /\ k = Len(history)
            /\ calls = k
            /\ result = NoResult
            /\ k = 1 => calls = 1 /\ attempt = 0

C4_Witness ==
    /\ schema = Answer(NoMax, "exception")
    /\ num_reasks >= 1
    /\ Len(history) = 1
    /\ history[1].raw = [decodes |-> TRUE, body |-> [n \in {"value"} |-> LeafMinus2]]
    /\ state = "Failed"
    /\ error = "ValidationError"
    /\ calls = 1

\* Only fix validators failed in round k, each on a decoded value.
OnlyFixFailures(k) ==
    /\ history[k].raw.decodes
    /\ \A n \in Names :
          \/ Valid(n, history[k].candidate[n])
          \/ HasPolicy(n, "fix") /\ history[k].candidate[n] # Absent
    /\ \E n \in Names : ~Valid(n, history[k].candidate[n])

LastRound == history[Len(history)]

\* C5: a fix field whose decoded value fails its constraint is in the final
\* result with a corrected value that satisfies the constraint, and the fix
\* costs no model call: a first response whose only failures are fix failures
\* ends the call after 1 model call, also when num_reasks >= 1.
C5_FixSatisfiesConstraint ==
    /\ (state = "Done" /\ result.kind = "mapping") =>
          \A n \in Names :
              (/\ HasPolicy(n, "fix")
               /\ LastRound.candidate[n] # Absent
               /\ ~Valid(n, LastRound.candidate[n])) =>
                  /\ n \in DOMAIN result.fields
                  /\ Valid(n, Some(result.fields[n]))
    /\ (Len(history) >= 1 /\ OnlyFixFailures(1)) =>
          /\ state = "Done"
          /\ calls = 1
          /\ attempt = 0
          /\ result.kind = "mapping"
          /\ unresolved = {}

C5_Witness ==
    /\ state = "Done"
    /\ num_reasks >= 1
    /\ calls = 1
    /\ Len(schema) = 2
    /\ OnlyFixFailures(1)
    /\ HasPolicy("value", "fix")
    /\ LastRound.candidate["value"] = Some(0 - 2)
    /\ "value" \in DOMAIN result.fields

\* C6: the fix of ValidRange(min, max) on an integer field corrects a value
\* below min to min and a value above max to max, and returns a value inside
\* [min, max] unchanged: with ValidRange(0, 10), -2 yields {value: 0} and 14
\* yields {value: 10}.
C6_FixClampsToNearestBound ==
    /\ (state = "Done" /\ result.kind = "mapping") =>
          \A n \in Names :
              (HasPolicy(n, "fix") /\ LastRound.candidate[n] # Absent) =>
                  LET v == ValidatorsOf(n)[1]
                      x == Get(LastRound.candidate[n])
                  IN  /\ n \in DOMAIN result.fields
                      /\ x < v.min => result.fields[n] = v.min
                      /\ (v.max # NoMax /\ x > Get(v.max)) =>
                            result.fields[n] = Get(v.max)
                      /\ InRange(v, Some(x)) => result.fields[n] = x
    /\ (/\ schema = Answer(Some(10), "fix")
        /\ Len(history) >= 1
        /\ history[1].raw.decodes) =>
            /\ history[1].raw.body["value"] = LeafMinus2 =>
                  result = [kind |-> "mapping", fields |-> [n \in {"value"} |-> 0]]
            /\ history[1].raw.body["value"] = Leaf14 =>
                  result = [kind |-> "mapping", fields |-> [n \in {"value"} |-> 10]]
            /\ history[1].raw.body["value"] = Leaf2 =>
                  result = [kind |-> "mapping", fields |-> [n \in {"value"} |-> 2]]

C6_Witness ==
    /\ schema = Answer(Some(10), "fix")
    /\ state = "Done"
    /\ history[1].raw = [decodes |-> TRUE, body |-> [n \in {"value"} |-> Leaf14]]
    /\ result.fields["value"] = 10

\* C7: a filter field that fails validation is absent from the final result
\* mapping, while every other field that passed validation is present with its
\* parsed value; with a single-field schema the result is the empty mapping.
C7_FilterDropsOnlyFailedField ==
    (state = "Done" /\ result.kind = "mapping") =>
        \A n \in Names :
            (HasPolicy(n, "filter") /\ ~Valid(n, LastRound.candidate[n])) =>
                /\ n \notin DOMAIN result.fields
                /\ \A m \in Names \ {n} :
                      Valid(m, LastRound.candidate[m]) =>
                          /\ m \in DOMAIN result.fields
                          /\ result.fields[m] = Get(LastRound.candidate[m])
                /\ Len(schema) = 1 => DOMAIN result.fields = {}

C7_Witness ==
    /\ state = "Done"
    /\ result.kind = "mapping"
    /\ Len(schema) = 2
    /\ HasPolicy("value", "filter")
    /\ LastRound.candidate["value"] = Some(0 - 2)
    /\ Valid("other", LastRound.candidate["other"])
    /\ DOMAIN result.fields = {"other"}

\* Some failure of round k calls for a re-ask or an exception: a reask,
\* fix_reask or exception validator failed, or a field without validators
\* could not be decoded.
ReaskOrRaise(k) ==
    \E n \in Names :
        \/ FailedWith(k, n, "reask")
        \/ FailedWith(k, n, "fix_reask")
        \/ FailedWith(k, n, "exception")
        \/ Len(ValidatorsOf(n)) = 0 /\ history[k].candidate[n] = Absent

\* C8: a refrain field that fails validation makes the entire final result
\* the refrained (no output) sentinel, whether the other fields passed, were
\* fixed or were filtered; no partial mapping is returned.
C8_RefrainDiscardsWholeResult ==
    /\ state = "Done" =>
          ((\E n \in Names : FailedWith(Len(history), n, "refrain")) =>
              result = [kind |-> "refrained", fields |-> <<>>])
    /\ \A k \in Rounds :
          ((\E n \in Names : FailedWith(k, n, "refrain")) /\ ~ReaskOrRaise(k)) =>
              /\ state = "Done"
              /\ k = Len(history)
              /\ result = [kind |-> "refrained", fields |-> <<>>]

C8_Witness ==
    /\ state = "Done"
    /\ Len(schema) = 2
    /\ HasPolicy("other", "refrain")
    /\ ~Valid("other", LastRound.candidate["other"])
    /\ Valid("value", LastRound.candidate["value"])
    /\ result.kind = "refrained"

\* C9: running out of re-asks is not an error: when a reask field still fails
\* in the round decided with no attempt left, the call ends in Done with no
\* error, the field keeps its last parsed value in the result, and the field
\* is noted as unresolved.
C9_ExhaustedBudgetIsNotAnError ==
    \A n \in Names :
        (/\ Len(history) = num_reasks + 1
         /\ HasPolicy(n, "reask")
         /\ ~Valid(n, LastRound.candidate[n])
         /\ \A m \in Names : ~FailedWith(Len(history), m, "exception")) =>
            /\ state = "Done"
            /\ error = NoError
            /\ n \in unresolved
            /\ attempt = num_reasks
            /\ (result.kind = "mapping" /\ LastRound.candidate[n] # Absent) =>
                  /\ n \in DOMAIN result.fields
                  /\ result.fields[n] = Get(LastRound.candidate[n])
            /\ result.kind \in {"mapping", "refrained"}

C9_Witness ==
    /\ state = "Done"
    /\ num_reasks = 1
    /\ calls = 2
    /\ HasPolicy("value", "reask")
    /\ LastRound.candidate["value"] = Some(14)
    /\ "value" \in unresolved
    /\ result.kind = "mapping"
    /\ result.fields["value"] = 14

\* C10: a TransportError of a model call in any attempt ends the call in
\* Failed with that error: the failed call is not parsed, validated or
\* decided, no re-ask is made for it and no result is produced, also when
\* attempts remain.
C10_TransportErrorIsFatal ==
    error = "TransportError" =>
        /\ state = "Failed"
        /\ calls = Len(history) + 1
        /\ attempt = Len(history)
        /\ raw = (IF history = <<>> THEN Absent ELSE Some(LastRound.raw))
        /\ history # <<>> => candidate = LastRound.candidate
        /\ result = NoResult
        /\ unresolved = {}

C10_Witness ==
    /\ error = "TransportError"
    /\ state = "Failed"
    /\ calls = 2
    /\ attempt = 1
    /\ num_reasks = MaxReasks

\* Some validator of field n has the on-fail action act.
Declares(n, act) ==
    \E i \in 1..Len(ValidatorsOf(n)) : ValidatorsOf(n)[i].on_fail = act

\* Field n is re-asked when nothing of it could be decoded: it has a reask or
\* fix_reask validator, or no validator at all.
ReaskedWhenAbsent(n) ==
    \/ Declares(n, "reask")
    \/ Declares(n, "fix_reask")
    \/ Len(ValidatorsOf(n)) = 0

\* The round in progress has been parsed and is not decided yet.
Parsed == state \in {"Validating", "Deciding"}

\* C11: a raw text that cannot be decoded is not fatal by itself: the call
\* goes on to Deciding with no error and every field of the schema failed, and
\* each field's on-fail action is applied (an exception validator raises, a
\* re-asked field is re-asked while attempts remain).
C11_ParseErrorIsAbsorbed ==
    /\ state = "Failed" => error \in {"TransportError", "ValidationError"}
    /\ (Parsed /\ ~Get(raw).decodes) =>
          /\ state = "Deciding"
          /\ error = NoError
          /\ candidate = [n \in Names |-> Absent]
          /\ \A n \in Names : failures[n] = 1..Len(ValidatorsOf(n))
    /\ \A k \in Rounds :
          ~history[k].raw.decodes =>
              /\ history[k].failed = Names
              /\ (k = Len(history) /\ state = "Failed" /\ calls = k) =>
                    /\ error = "ValidationError"
                    /\ \E n \in Names : Declares(n, "exception")
              /\ (\E n \in Names : Declares(n, "exception")) =>
                    k = Len(history) /\ state = "Failed"
              /\ (/\ \A n \in Names : ~Declares(n, "exception")
                  /\ \E n \in Names : ReaskedWhenAbsent(n)
                  /\ k <= num_reasks) =>
                    /\ history[k].reask = {n \in Names : ReaskedWhenAbsent(n)}
                    /\ ~(k = Len(history) /\ Terminal /\ calls = k)

C11_Witness ==
    /\ Len(history) = 2
    /\ ~history[1].raw.decodes
    /\ history[2].prompt.kind = "reask"
    /\ history[2].raw.decodes
    /\ state = "Done"
    /\ unresolved = {}

\* C12: a round in which one or more fields ask for a re-ask takes exactly one
\* attempt and leads to exactly one model call, however many fields asked: all
\* of them are put into the one re-ask prompt of the next round.
C12_OneReaskPerRound ==
    /\ \A k \in 1..(Len(history) - 1) :
          /\ history[k].reask # {}
          /\ {n \in Names : FailedWith(k, n, "reask")} \subseteq history[k].reask
          /\ history[k + 1].prompt.kind = "reask"
          /\ history[k + 1].prompt.failed = history[k].reask
    /\ state \in {"Composing", "Requesting"} =>
          Len(history) = attempt /\ calls = attempt
    /\ state \in {"Parsing", "Validating", "Deciding"} =>
          Len(history) = attempt /\ calls = attempt + 1
    /\ state = "Done" => Len(history) = attempt + 1 /\ calls = attempt + 1
    /\ state = "Failed" => calls = attempt + 1

C12_Witness ==
    /\ Len(history) = 2
    /\ HasPolicy("value", "reask")
    /\ Len(schema) = 2
    /\ HasPolicy("other", "reask")
    /\ history[2].prompt.failed = {"value", "other"}
    /\ attempt = 1
    /\ calls = 2
    /\ state = "Done"

\* C13: in every reachable state the attempt counter lies in 0..num_reasks and
\* at most num_reasks + 1 model calls were made, for every mix of on-fail
\* actions and every sequence of responses, re-asks after a fix included.
C13_BudgetBoundsAttemptsAndCalls ==
    /\ attempt \in 0..num_reasks
    /\ calls \in 0..(num_reasks + 1)
    /\ ReaskPrompts <= num_reasks

C13_Witness ==
    /\ num_reasks = MaxReasks
    /\ attempt = num_reasks
    /\ calls = num_reasks + 1
    /\ Declares("value", "fix_reask")
    /\ \A k \in Rounds : history[k].raw.decodes /\ "value" \in history[k].reask
    /\ state = "Done"

\* C14: every call terminates: given that each call of the language model API
\* returns or fails, the call reaches Done or Failed for every schema, every
\* num_reasks and every sequence of responses.
C14_Terminates == <>Terminal

C14_Witness ==
    /\ Terminal
    /\ num_reasks = MaxReasks
    /\ calls = MaxReasks + 1
    /\ Len(schema) = 2

\* Every validator of field n has the on-fail action act.
OnlyPolicy(n, act) ==
    /\ Len(ValidatorsOf(n)) >= 1
    /\ \A i \in 1..Len(ValidatorsOf(n)) : ValidatorsOf(n)[i].on_fail = act

\* The bound of the single validator of field n that is closer to x.
Nearest(n, x) ==
    LET v == ValidatorsOf(n)[1]
    IN  IF x < v.min THEN v.min
        ELSE IF v.max # NoMax /\ x > Get(v.max) THEN Get(v.max)
        ELSE x

\* No exception validator failed in round k.
NoRaise(k) == \A m \in Names : ~FailedWith(k, m, "exception")

\* The only failures of round k are failures of act validators on decoded
\* values of fields with that single validator.
OnlyFailures(k, act) ==
    /\ history[k].raw.decodes
    /\ \A n \in Names :
          \/ Valid(n, history[k].candidate[n])
          \/ HasPolicy(n, act) /\ history[k].candidate[n] # Absent
    /\ \E n \in Names : ~Valid(n, history[k].candidate[n])

\* C15: for a fix_reask field that fails validation the fix is applied first
\* and validation is rerun on the fixed value: when the fixed value passes it
\* is kept and the field causes no re-ask and no model call; only when it
\* still fails is the field re-asked (while attempts remain) or returned as
\* unresolved in Done (when none remains).
C15_FixThenReask ==
    /\ \A n \in Names :
          OnlyPolicy(n, "fix_reask") =>
              /\ \A k \in Rounds :
                    LET c == history[k].candidate[n]
                    IN  /\ (HasPolicy(n, "fix_reask") /\ c # Absent) =>
                              n \notin history[k].reask
                        /\ c = Absent => n \in history[k].reask
                        /\ (n \in history[k].reask /\ NoRaise(k)) =>
                              IF k <= num_reasks
                              THEN ~(k = Len(history) /\ Terminal /\ calls = k)
                              ELSE /\ k = Len(history)
                                   /\ state = "Done"
                                   /\ n \in unresolved
              /\ (state = "Done" /\ result.kind = "mapping") =>
                    /\ (n \in DOMAIN result.fields /\ n \notin unresolved) =>
                          Valid(n, Some(result.fields[n]))
                    /\ (n \in DOMAIN result.fields /\ n \in unresolved) =>
                          ~Valid(n, Some(result.fields[n]))
                    /\ (HasPolicy(n, "fix_reask") /\ LastRound.candidate[n] # Absent) =>
                          /\ n \in DOMAIN result.fields
                          /\ result.fields[n] = Nearest(n, Get(LastRound.candidate[n]))
    /\ (Len(history) >= 1 /\ OnlyFailures(1, "fix_reask")) =>
          /\ state = "Done"
          /\ calls = 1
          /\ attempt = 0
          /\ unresolved = {}

C15_Witness ==
    /\ schema = Answer(Some(10), "fix_reask")
    /\ num_reasks = MaxReasks
    /\ Len(history) = 2
    /\ history[1].raw.decodes
    /\ history[1].candidate["value"] = Absent
    /\ history[1].reask = {"value"}
    /\ history[2].candidate["value"] = Some(14)
    /\ state = "Done"
    /\ calls = 2
    /\ result = [kind |-> "mapping", fields |-> [n \in {"value"} |-> 10]]

\* C16: for a fix field validation is rerun once on the fixed value, with no
\* model call; when the fixed value still fails the field is treated as noop:
\* it is not re-asked, the call does not fail, the fix is not applied again,
\* and the fixed (still invalid) value is kept with the failure recorded.
C16_StillFailingFixIsNoop ==
    /\ \A n \in Names :
          OnlyPolicy(n, "fix") =>
              /\ \A k \in Rounds :
                    /\ n \notin history[k].reask
                    /\ ~Valid(n, history[k].candidate[n]) => n \in history[k].failed
              /\ n \notin unresolved
              /\ (state = "Done" /\ result.kind = "mapping"
                    /\ LastRound.candidate[n] # Absent) =>
                    /\ n \in DOMAIN result.fields
                    /\ ~Valid(n, LastRound.candidate[n]) => n \in recorded
    /\ (Len(schema) = 1 /\ OnlyPolicy("value", "fix") /\ Len(history) >= 1) =>
          /\ state = "Done"
          /\ error = NoError
          /\ calls = 1
          /\ attempt = 0
          /\ Len(history) = 1
    /\ (schema = AnswerTwoRanges("fix") /\ state = "Done") =>
          /\ LastRound.candidate["value"] = Some(14) =>
                result = [kind |-> "mapping", fields |-> [n \in {"value"} |-> 10]]
          /\ LastRound.candidate["value"] = Some(2) =>
                result = [kind |-> "mapping", fields |-> [n \in {"value"} |-> 12]]
          /\ LastRound.candidate["value"] # Absent =>
                /\ ~Valid("value", Some(result.fields["value"]))
                /\ recorded = {"value"}

C16_Witness ==
    /\ schema = AnswerTwoRanges("fix")
    /\ num_reasks = MaxReasks
    /\ state = "Done"
    /\ calls = 1
    /\ LastRound.candidate["value"] = Some(14)
    /\ result.fields["value"] = 10
    /\ recorded = {"value"}

\* C17: a failing noop field keeps its parsed (invalid) value in the final
\* result and has its failure recorded, and nothing else is done about it: no
\* re-ask, no further model call, no removal of the field, no error; a call
\* whose only failures are noop failures ends in Done after one model call.
C17_NoopKeepsInvalidValue ==
    /\ \A n \in Names :
          OnlyPolicy(n, "noop") =>
              /\ \A k \in Rounds :
                    /\ n \notin history[k].reask
                    /\ ~Valid(n, history[k].candidate[n]) => n \in history[k].failed
              /\ n \notin unresolved
              /\ (state = "Done" /\ result.kind = "mapping"
                    /\ LastRound.candidate[n] # Absent) =>
                    /\ n \in DOMAIN result.fields
                    /\ result.fields[n] = Get(LastRound.candidate[n])
                    /\ ~Valid(n, LastRound.candidate[n]) => n \in recorded
    /\ (/\ Len(history) >= 1
        /\ \A n \in Names :
              Valid(n, history[1].candidate[n]) \/ OnlyPolicy(n, "noop")) =>
          /\ state = "Done"
          /\ error = NoError
          /\ calls = 1
          /\ attempt = 0
          /\ result.kind = "mapping"

C17_Witness ==
    /\ Len(schema) = 2
    /\ HasPolicy("value", "noop")
    /\ num_reasks = MaxReasks
    /\ state = "Done"
    /\ calls = 1
    /\ LastRound.candidate["value"] = Some(14)
    /\ Valid("other", LastRound.candidate["other"])
    /\ result.fields["value"] = 14
    /\ recorded = {"value"}

\* The prompts composed so far: those of the decided rounds and the one of the
\* round under way.
PromptsSent ==
    {history[k].prompt : k \in Rounds}
        \cup (IF prompt.kind = "none" THEN {} ELSE {prompt})

\* C18: every prompt sent to the model, the re-ask prompts included, embeds
\* the original user query; a re-ask prompt also embeds which fields failed in
\* the previous attempt, and the first prompt embeds no failure context.
C18_EveryPromptEmbedsQuery ==
    \A p \in PromptsSent :
        /\ p.query = Some(query)
        /\ p.kind = "reask" => p.failed # {}
        /\ p.kind = "prompt" => p.failed = {}

\* The integer a leaf text of the notebook stands for, when it stands for one.
Coercible(l) == l \in {LeafMinus2, Leaf2, Leaf14}
IntOfLeaf(l) ==
    CASE l = LeafMinus2 -> 0 - 2 [] l = Leaf2 -> 2 [] l = Leaf14 -> 14

\* The CandidateOutput expected of a decoded raw output r.
ExpectedCandidate(r) ==
    [n \in Names |->
        IF Coercible(r.body[n]) THEN Some(IntOfLeaf(r.body[n])) ELSE Absent]

\* C19: when the raw output decodes structurally but one field's leaf cannot
\* be coerced to its type ("the answer is 2" for an integer field), no
\* ParseError is raised: that field is absent in the candidate output, the
\* other fields keep their coerced values, and the call proceeds from Parsing
\* to Validating, not to Failed.
C19_CoercionFailureLeavesFieldAbsent ==
    /\ [](/\ error # "ParseError"
          /\ (Parsed /\ Get(raw).decodes) =>
                /\ candidate = ExpectedCandidate(Get(raw))
                /\ error = NoError
          /\ \A k \in Rounds :
                history[k].raw.decodes =>
                    history[k].candidate = ExpectedCandidate(history[k].raw))
    /\ [][(state = "Parsing" /\ Get(raw).decodes) =>
              /\ state' = "Validating"
              /\ error' = NoError
              /\ candidate' = ExpectedCandidate(Get(raw))]_vars

C19_Witness ==
    /\ Len(schema) = 2
    /\ state = "Validating"
    /\ Get(raw).decodes
    /\ Get(raw).body["value"] = LeafSentence
    /\ Get(raw).body["other"] = Leaf2
    /\ candidate["value"] = Absent
    /\ candidate["other"] = Some(2)
    /\ error = NoError

\* The moves an orchestration may make from its current state.
AllowedMove ==
    /\ state = "Composing" =>
          /\ state' = "Requesting"
          /\ prompt' = ComposePrompt(attempt, PriorFailures)
    /\ state = "Requesting" =>
          \/ state' = "Parsing" /\ error' = NoError
          \/ state' = "Failed" /\ error' = "TransportError"
    /\ state = "Parsing" =>
          \/ state' = "Validating" /\ Get(raw).decodes
          \/ state' = "Deciding" /\ ~Get(raw).decodes
    /\ state = "Validating" => state' = "Deciding"
    /\ state = "Deciding" =>
          \/ state' = "Done" /\ error' = NoError
          \/ state' = "Composing" /\ attempt' = attempt + 1
          \/ state' = "Failed" /\ error' = "ValidationError"
    /\ state \notin {"Done", "Failed"}
    /\ state' = "Done" => state = "Deciding"
    /\ state' = "Failed" => state \in {"Requesting", "Deciding"}
    /\ calls' # calls => state = "Requesting" /\ calls' = calls + 1
    /\ state = "Requesting" => calls' = calls + 1
    /\ attempt' # attempt => state = "Deciding" /\ state' = "Composing"

\* C20: an orchestration only moves along Composing -> Requesting -> Parsing
\* -> Validating -> Deciding -> {Done, Composing (re-ask), Failed}, a text that
\* cannot be decoded going from Parsing straight to Deciding: every model call
\* follows the composing of the prompt of the same attempt, parsing and
\* validation of attempt i start only after the model call of attempt i has
\* completed, one model call at most is made per attempt and at a time, Done is
\* entered only from Deciding, and Failed only from Requesting
\* (TransportError) or Deciding (ValidationError).
C20_StatesInOrder ==
    /\ [][AllowedMove]_vars
    /\ [](/\ state \in {"Composing", "Requesting"} => calls = attempt
          /\ state \in {"Parsing", "Validating", "Deciding", "Done"} =>
                calls = attempt + 1
          /\ state = "Requesting" => prompt = ComposePrompt(attempt, PriorFailures)
          /\ state = "Failed" => calls = attempt + 1
          /\ Len(history) \in {attempt, attempt + 1})

C20_Witness ==
    /\ state = "Done"
    /\ attempt = MaxReasks
    /\ calls = MaxReasks + 1
    /\ Len(history) = MaxReasks + 1
    /\ history[1].raw.decodes
    /\ ~history[2].raw.decodes
    /\ history[2].prompt.kind = "reask"

\* Caller i's call run alone on the responses ins, from o up to the next call
\* of the language model API that has no response yet, or to its end.
RECURSIVE RunAlone(_, _, _, _, _)
RunAlone(o, ins, S, max, i) ==
    CASE o.state = "Composing" ->
            RunAlone(ComposeStep([k \in {i} |-> o], i), ins, S, max, i)
      [] o.state = "Requesting" ->
            IF ins = <<>> THEN o
            ELSE RunAlone(RequestStep(o, Head(ins)), Tail(ins), S, max, i)
      [] o.state = "Parsing" -> RunAlone(ParseStep(o, S), ins, S, max, i)
      [] o.state = "Validating" -> RunAlone(ValidateStep(o, S), ins, S, max, i)
      [] o.state = "Deciding" -> RunAlone(DecideStep(o, S, max), ins, S, max, i)
      [] OTHER -> o

\* Caller i's call is about to call the model, or has ended.
AtCallOrEnd(i) == orchs[i].state \in {"Requesting", "Done", "Failed"}

Reversed(f) ==
    [f EXCEPT !.validators =
        [i \in 1..Len(f.validators) |-> f.validators[Len(f.validators) + 1 - i]]]

\* The outcome for field f on the parsed value val: the validators that
\* failed, whether an exception is raised, the decided actions and the value.
OutcomeOf(f, fails, d) ==
    [failures |-> {f.validators[i] : i \in fails}, failed |-> d.failed,
     raise |-> d.raise, acts |-> d.acts, value |-> d.value]

Outcome(f, val) ==
    OutcomeOf(f, Failing(f, val), DecideField(f, val, Failing(f, val)))

\* Every validator of field n was evaluated on the parsed value.
AllEvaluated(n) ==
    failures[n] = {i \in 1..Len(ValidatorsOf(n)) :
                      ~InRange(ValidatorsOf(n)[i], candidate[n])}

\* The outcome decided for field n is the one its validators give in the
\* opposite order.
SameOutcomeReversed(n) ==
    OutcomeOf(FieldOf(schema, n), failures[n], Outs[n])
        = Outcome(Reversed(FieldOf(schema, n)), candidate[n])

Disjoint(v, w) ==
    \/ w.max # NoMax /\ v.min > Get(w.max)
    \/ v.max # NoMax /\ w.min > Get(v.max)

\* Two of the validators of field n that failed both carry a fix policy and
\* have no value in common.
ConflictingFixes(n) ==
    \E i \in failures[n], j \in failures[n] :
        /\ ValidatorsOf(n)[i].on_fail \in {"fix", "fix_reask"}
        /\ ValidatorsOf(n)[j].on_fail \in {"fix", "fix_reask"}
        /\ Disjoint(ValidatorsOf(n)[i], ValidatorsOf(n)[j])

RaiseAndReask(k) ==
    /\ k - 1 < num_reasks
    /\ \E n \in Names, m \in Names :
          /\ n # m
          /\ FailedWith(k, n, "exception")
          /\ FailedWith(k, m, "reask")

\* C23: when in one round a field fails with policy exception and another
\* field fails with policy reask while re-asks remain, the call ends in Failed
\* with ValidationError and no re-ask is made: the number of model calls stays
\* what it was in that round.
C23_RaiseBeatsReask ==
    \A k \in Rounds :
        RaiseAndReask(k) =>
            /\ state = "Failed"
            /\ error = "ValidationError"
            /\ Len(history) = k
            /\ calls = k
            /\ attempt = k - 1
            /\ ReaskPrompts = k - 1
            /\ prompt = history[k].prompt
            /\ result = NoResult

C23_Witness ==
    /\ schema = Answer2(Some(10), "exception", "reask")
    /\ num_reasks = MaxReasks
    /\ Len(history) = 1
    /\ history[1].raw.decodes
    /\ history[1].candidate = [n \in Names |-> Some(0 - 2)]
    /\ RaiseAndReask(1)
    /\ state = "Failed"
    /\ error = "ValidationError"
    /\ calls = 1

\* C24: no invalid value is returned silently: in every Done state whose
\* result is not the refrained sentinel, every field of the final mapping is a
\* field of the schema, and its value passes all of the field's validators or
\* the field has a failure on record (a noop failure recorded in the logs, or
\* the note of an unresolved re-ask).
C24_NoInvalidValueSilently ==
    (state = "Done" /\ result.kind = "mapping") =>
        /\ DOMAIN result.fields \subseteq Names
        /\ \A n \in DOMAIN result.fields :
              \/ Valid(n, Some(result.fields[n]))
              \/ n \in recorded /\ n \in LastRound.failed
              \/ n \in unresolved

C24_Witness ==
    /\ schema = Answer2(Some(10), "noop", "reask")
    /\ state = "Done"
    /\ result.kind = "mapping"
    /\ DOMAIN result.fields = {"value", "other"}
    /\ result.fields["value"] = 14
    /\ result.fields["other"] = 0 - 2
    /\ "value" \in recorded
    /\ "value" \notin unresolved
    /\ unresolved = {"other"}

====
